---- MODULE Spec2Model ----
(***************************************************************************)
(* A state-machine model of the dbgen generator runtime (run_gen), of      *)
(* run_airflow and the DAG file it emits, of a Generator's nodes and       *)
(* computational graph, and of the id of an Entity instance, with the      *)
(* properties claimed about them.                                          *)
(***************************************************************************)
EXTENDS Integers, Sequences, FiniteSets, TLC

VARIABLES
  \* ---- run_gen ----------------------------------------------------------
  tags,      \* gen.tags
  query,     \* gen.query: [q, rows], q false when gen.query is None, else the rows it returns
  retry,     \* run_gen argument retry of the current call
  serial,    \* run_gen argument serial of the current call
  run_id,    \* run_gen argument run_id of the current call (0: no call yet)
  pc,        \* position of the parent process inside run_gen
  status,    \* gens.status, per run
  n_inputs,  \* gens.n_inputs, per run: [set, n]
  repeats,   \* the repeats table: rows [gen, run, uid]
  repeats0,  \* history: repeats when the current call was entered
  inputs,    \* the list `inputs` that mapper(f, inputs) walks: records [row, uid]
  rowst,     \* per record: [ph, f, a, w]: phase, transforms run, loads run, repeats written
  given,     \* per record: what the namespace d of its transforms and loads holds under 'query'
  conns,     \* per record: connections opened by apply_parallel and still open
  loads,     \* main database: <<action, d['query']>> for each load applied
  exc,       \* first exception that reaches the parent's loop
  usesPool,  \* whether ctx.Pool(cpus) was created by the current call
  \* ---- the emitted DAG file ---------------------------------------------
  gens,      \* self.gens: generator names in dict order
  deps,      \* self._gen_graph().edges()
  dagfile,   \* the DAG file run_airflow wrote: [written, operators, upstream]
  mode,      \* how the emitted file is run: by the airflow scheduler or as __main__
  gstate,    \* per generator: state of its operator / callable
  \* ---- run_airflow ------------------------------------------------------
  schema,    \* whether the user schema exists (check_schema_exists)
  nuked,     \* whether make_schema(nuke) was called
  runs,      \* the run rows _make_metatables wrote: [only, xclude, start, until]
  aout,      \* where the latest run_airflow call ended
  \* ---- Generator: nodes and computational graph -------------------------
  extract,   \* self.extract: hash of the node
  transforms, \* self.transforms: hashes, in list order
  gen_loads, \* self.loads: hashes, in list order
  graph,     \* self._graph: [built, nodes, edges], built false while it is None
  dependency, \* self.dependency
  additional_dependencies, \* self.additional_dependencies
  ctx,       \* whether the generator's with-block is open
  op,        \* the latest call on the generator
  err,       \* what that call raised
  ret,       \* the nodes that call returned, in order
  invoked,   \* the nodes a run invoked, in order
  \* ---- Entity -----------------------------------------------------------
  instances, \* the entity instances made: [entity, given, values]
  eerr,      \* what making the latest instance raised
  \* ---- BaseEntity.load --------------------------------------------------
  lcall,     \* the latest load / _get_load_entity call: [op, cls, kw, res]
  \* ---- EntityMetaclass --------------------------------------------------
  classes,   \* the classes that exist, in the order they were made
  registry,  \* registry.metadata.tables: the full table names registered
  derr,      \* what the latest declaration raised
  \* ---- to_dict / from_dict ----------------------------------------------
  sx,        \* the value serialized
  sjson,     \* what to_dict / toJSON made of it
  sback,     \* what from_dict / fromJSON made of that
  spc,       \* how far the round trip is
  \* ---- interact_gen -----------------------------------------------------
  rows0,         \* the input rows interact_gen was called with
  input_rows,    \* the rows not yet popped
  next_row,      \* the row at hand
  ilog,          \* the rows popped so far and the answer that settled each
  post_pyblocks, \* the first list returned
  action_dicts,  \* the second list returned
  answer,        \* the latest answer at the row prompt
  display,       \* the latest answer at a display prompt
  ipc            \* where interact_gen is

gvars == <<tags, query, retry, serial, run_id, pc, status, n_inputs, repeats, repeats0, inputs, rowst, given, conns, loads, exc, usesPool>>
avars == <<schema, nuked, runs, aout>>
dvars == <<gens, deps, dagfile, mode, gstate, avars>>
nvars == <<extract, transforms, gen_loads, graph, dependency, additional_dependencies, ctx, op, err, ret, invoked>>
evars == <<instances, eerr>>
lvars == <<lcall>>
cvars == <<classes, registry, derr>>
svars == <<sx, sjson, sback, spc>>
ivars == <<rows0, input_rows, next_row, ilog, post_pyblocks, action_dicts, answer, display, ipc>>
xvars == <<lvars, cvars, svars, ivars>>
ovars == <<nvars, evars, xvars>>
vars == <<gvars, dvars, ovars>>

(***************************************************************************)
(* Bounds                                                                  *)
(***************************************************************************)
MaxRows == 3
MaxRuns == 2
ParRows == 6

(***************************************************************************)
(* run_gen                                                                 *)
(***************************************************************************)
Recs == {"A", "B"}
NoQuery == [q |-> FALSE, rows |-> <<>>]
QueryOfRows(t) == [q |-> TRUE, rows |-> t]
EmptyRow == "{}"
AllTags == {"io", "parallel", "stream"}
AId == "a_id"
GHash == "ghash"
Funcs == <<"f1", "f2">>
Actions == <<"a1", "a2">>
ChunkSize == 5
EntryStatus == "running"
Unset == [set |-> FALSE, n |-> 0]
NotGiven == "not given"
Missing == "missing"

Runs == 1..MaxRuns

RECURSIVE SeqsUpTo(_, _)
SeqsUpTo(S, n) == IF n = 0 THEN {<<>>} ELSE LET T == SeqsUpTo(S, n - 1) IN T \cup {Append(t, x) : t \in {u \in T : Len(u) = n - 1}, x \in S}

SeqsOfLen(S, n) == {t \in SeqsUpTo(S, n) : Len(t) = n}

\* hasher(x) = hash_(ghash + str(x)): the generator's hash joined to the record
hasher(x) == <<GHash, x>>

\* line 54: retry_ = retry or ('io' in gen.tags)
Retry_(r) == r \/ ("io" \in tags)
retry_ == Retry_(retry)

\* line 57: parallel = (not serial) and ('parallel' in gen.tags)
Parallel(s) == (~s) /\ ("parallel" \in tags)
parallel == Parallel(serial)
Stream == "stream" \in tags

\* rpt_select: the (ind, uid) rows of temp with no repeats row of this generator
rpt_select(temp, rp, g) == {i \in DOMAIN temp : ~(\E e \in rp : e.gen = g /\ e.uid = temp[i])}

\* the key of the repeats table
RepeatsKey(e) == <<e.gen, e.uid>>

MutantInsRptPlain(rp, g, r, u) == LET new == [gen |-> g, run |-> r, uid |-> u] IN [err |-> (\E e \in rp : RepeatsKey(e) = RepeatsKey(new)), rows |-> IF \E e \in rp : RepeatsKey(e) = RepeatsKey(new) THEN rp ELSE rp \cup {new}]

\* ins_rpt_stmt: INSERT ... ON DUPLICATE KEY UPDATE uid=uid, one atomic statement:
\* a row whose key is present is left as it is, and no error is raised
ins_rpt_stmt(rp, g, r, u) == LET new == [gen |-> g, run |-> r, uid |-> u] IN [err |-> FALSE, rows |-> IF \E e \in rp : RepeatsKey(e) = RepeatsKey(new) THEN rp ELSE rp \cup {new}]

\* the rows of a result set, taken in the order of temp.ind (the statement has no ORDER BY)
RECURSIVE Ascending(_)
Ascending(S) == IF S = {} THEN <<>> ELSE LET m == CHOOSE x \in S : \A y \in S : x <= y IN <<m>> \o Ascending(S \ {m})

\* the records of a non-stream call: [{}] without a query, else the query's rows
QueryInputs == IF ~query.q THEN <<EmptyRow>> ELSE query.rows

\* lines 101-115: the (record, hash) pairs left after repeat checking
\* (ind is kept beside each pair as history: the record's place in the query's rows)
CheckedInputs(rp, rt) == LET ins == QueryInputs temp == [i \in DOMAIN ins |-> hasher(ins[i])] keep == IF rt THEN Ascending(DOMAIN ins) ELSE Ascending(rpt_select(temp, rp, AId)) IN [k \in DOMAIN keep |-> [ind |-> keep[k], row |-> ins[keep[k]], uid |-> temp[keep[k]]]]

\* number of records of the current call and the record at each index
NRows == IF Stream THEN Len(query.rows) ELSE Len(inputs)
RowOf(i) == IF Stream THEN query.rows[i] ELSE inputs[i].row
UidOf(i) == IF Stream THEN hasher(query.rows[i]) ELSE inputs[i].uid

\* imap_unordered(..., chunksize = 5): one task per chunk; map: one after the other
ChunkOf(i) == IF parallel THEN (i - 1) \div ChunkSize ELSE 0

Fresh == [ph |-> "wait", f |-> 0, a |-> 0, w |-> FALSE]
Failed == {"external", "fatal", "dupkey"}
Terminal == {"done", "skip"} \cup Failed
Ended == {"ret0", "ret1", "raised"}

\* apply_and_act line 158, d = {'query': row}: what the namespace holds under 'query'
ApplyNs(row) == row
\* stream loop line 85, d = {}: the namespace holds nothing under 'query'
StreamNs(row) == Missing

MutantRptBeforeActs(r) == IF r.f < Len(Funcs) THEN "pb" ELSE IF ~r.w THEN "rpt" ELSE IF r.a < Len(Actions) THEN "act" ELSE "exit"

\* apply_and_act's statement order: the transforms, the loads, the repeats write
NextOp(r) == IF r.f < Len(Funcs) THEN "pb" ELSE IF r.a < Len(Actions) THEN "act" ELSE IF ~r.w THEN "rpt" ELSE "exit"

\* the first exception raised is the one the parent's loop receives
FirstExc(kind) == IF exc = "none" THEN (IF kind = "external" THEN "external" ELSE "fatal") ELSE exc

\* lines 53-69 and 92-117: entry, the query, repeat checking
\* (records of an earlier call that a pool worker has not finished are dropped here)
RunGenBatch(r, s) ==
  /\ ~Stream
  /\ pc \in {"idle"} \cup Ended
  /\ run_id < MaxRuns
  /\ retry' = r
  /\ serial' = s
  /\ run_id' = run_id + 1
  /\ status' = [status EXCEPT ![run_id + 1] = EntryStatus]
  /\ usesPool' = Parallel(s)
  /\ repeats0' = repeats
  /\ inputs' = CheckedInputs(repeats, Retry_(r))
  /\ rowst' = [i \in DOMAIN inputs' |-> Fresh]
  /\ given' = [i \in DOMAIN inputs' |-> NotGiven]
  /\ conns' = [i \in DOMAIN inputs' |-> 0]
  /\ exc' = "none"
  /\ pc' = "apply"
  /\ UNCHANGED <<tags, query, n_inputs, repeats, loads, dvars, ovars>>

\* lines 53-69 and 72-75: entry, assert gen.query, the cursor
RunGenStream(r, s) ==
  /\ Stream
  /\ pc \in {"idle"} \cup Ended
  /\ run_id < MaxRuns
  /\ retry' = r
  /\ serial' = s
  /\ run_id' = run_id + 1
  /\ status' = [status EXCEPT ![run_id + 1] = EntryStatus]
  /\ usesPool' = Parallel(s)
  /\ repeats0' = repeats
  /\ inputs' = <<>>
  /\ rowst' = [i \in 1..NRows |-> Fresh]
  /\ given' = [i \in 1..NRows |-> NotGiven]
  /\ conns' = [i \in 1..NRows |-> 0]
  /\ exc' = IF ~query.q THEN "fatal" ELSE "none"
  /\ pc' = "stream"
  /\ UNCHANGED <<tags, query, n_inputs, repeats, loads, dvars, ovars>>

\* whether a worker (or the parent's map) may run record i now
CanWork(i) ==
  /\ ~Stream
  /\ i \in DOMAIN rowst
  /\ pc = "apply" \/ (parallel /\ pc \in {"ret1", "raised"})
  /\ \A j \in 1..(i - 1) : ChunkOf(j) = ChunkOf(i) => rowst[j].ph = "done"

\* a statement of record i raises: the record's frame (its loop counters) is gone
Raise(i, kind) ==
  /\ rowst' = [rowst EXCEPT ![i] = [ph |-> kind, f |-> 0, a |-> 0, w |-> @.w]]
  /\ exc' = FirstExc(kind)

\* lines 176-177 (apply_parallel) or 191 (apply_serial), and 158
Begin(i) ==
  /\ rowst[i].ph = "wait"
  /\ CanWork(i)
  /\ rowst' = [rowst EXCEPT ![i].ph = "run"]
  /\ conns' = [conns EXCEPT ![i] = IF parallel THEN 2 ELSE 0]
  /\ given' = [given EXCEPT ![i] = ApplyNs(RowOf(i))]
  /\ UNCHANGED <<tags, query, retry, serial, run_id, pc, status, n_inputs, repeats, repeats0, inputs, loads, exc, usesPool, dvars, ovars>>

\* lines 159-160: one transform
Pb(i, out) ==
  /\ rowst[i].ph = "run"
  /\ CanWork(i)
  /\ NextOp(rowst[i]) = "pb"
  /\ IF out = "ok" THEN rowst' = [rowst EXCEPT ![i].f = @ + 1] /\ exc' = exc ELSE Raise(i, out)
  /\ UNCHANGED <<tags, query, retry, serial, run_id, pc, status, n_inputs, repeats, repeats0, inputs, given, conns, loads, usesPool, dvars, ovars>>

\* lines 162-163: one load
Act(i, out) ==
  /\ rowst[i].ph = "run"
  /\ CanWork(i)
  /\ NextOp(rowst[i]) = "act"
  /\ IF out = "ok" THEN rowst' = [rowst EXCEPT ![i].a = @ + 1] /\ exc' = exc /\ loads' = loads \cup {<<Actions[rowst[i].a + 1], given[i]>>} ELSE Raise(i, out) /\ loads' = loads
  /\ UNCHANGED <<tags, query, retry, serial, run_id, pc, status, n_inputs, repeats, repeats0, inputs, given, conns, usesPool, dvars, ovars>>

\* line 165: the repeats write
Rpt(i, out) ==
  /\ rowst[i].ph = "run"
  /\ CanWork(i)
  /\ NextOp(rowst[i]) = "rpt"
  /\ LET res == ins_rpt_stmt(repeats, AId, run_id, UidOf(i)) IN IF out # "ok" THEN Raise(i, out) /\ repeats' = repeats ELSE IF res.err THEN Raise(i, "dupkey") /\ repeats' = repeats ELSE rowst' = [rowst EXCEPT ![i].w = TRUE] /\ exc' = exc /\ repeats' = res.rows
  /\ UNCHANGED <<tags, query, retry, serial, run_id, pc, status, n_inputs, repeats0, inputs, given, conns, loads, usesPool, dvars, ovars>>

\* line 181 (apply_parallel closes both connections) or the return of apply_serial
Exit(i) ==
  /\ rowst[i].ph = "run"
  /\ CanWork(i)
  /\ NextOp(rowst[i]) = "exit"
  /\ rowst' = [rowst EXCEPT ![i].ph = "done"]
  /\ conns' = [conns EXCEPT ![i] = 0]
  /\ UNCHANGED <<tags, query, retry, serial, run_id, pc, status, n_inputs, repeats, repeats0, inputs, given, loads, exc, usesPool, dvars, ovars>>

\* lines 77-89: one row of the cursor
StreamRow(out) ==
  /\ Stream
  /\ pc = "stream"
  /\ exc = "none"
  /\ \E i \in DOMAIN rowst :
       /\ rowst[i].ph = "wait"
       /\ \A j \in 1..(i - 1) : rowst[j].ph # "wait"
       /\ LET is_rpt == IF retry_ THEN {} ELSE {e \in repeats : e.gen = AId /\ e.uid = hasher(query.rows[i])}
              d == StreamNs(query.rows[i])
          IN IF is_rpt # {}
             THEN out = "ok" /\ rowst' = [rowst EXCEPT ![i].ph = "skip"] /\ UNCHANGED <<given, loads, exc>>
             ELSE /\ given' = [given EXCEPT ![i] = d]
                  /\ IF out = "ok"
                     THEN /\ rowst' = [rowst EXCEPT ![i] = [ph |-> "done", f |-> Len(Funcs), a |-> Len(Actions), w |-> FALSE]]
                          /\ loads' = loads \cup {<<Actions[k], d>> : k \in DOMAIN Actions}
                          /\ exc' = exc
                     ELSE Raise(i, out) /\ loads' = loads
  /\ UNCHANGED <<tags, query, retry, serial, run_id, pc, status, n_inputs, repeats, repeats0, inputs, conns, usesPool, dvars, ovars>>

\* lines 90 and 131-135 after the stream loop: update_status, then `tot` is unbound
StreamComplete ==
  /\ Stream
  /\ pc = "stream"
  /\ exc = "none"
  /\ \A i \in DOMAIN rowst : rowst[i].ph \in {"done", "skip"}
  /\ status' = [status EXCEPT ![run_id] = "completed"]
  /\ exc' = "unbound"
  /\ pc' = "raised"
  /\ UNCHANGED <<tags, query, retry, serial, run_id, n_inputs, repeats, repeats0, inputs, rowst, given, conns, loads, usesPool, dvars, ovars>>

\* lines 128-137 after the last result: update_status, the statistics, return 0
Complete ==
  /\ ~Stream
  /\ pc = "apply"
  /\ exc = "none"
  /\ \A i \in DOMAIN rowst : rowst[i].ph = "done"
  /\ status' = [status EXCEPT ![run_id] = "completed"]
  /\ n_inputs' = [n_inputs EXCEPT ![run_id] = [set |-> TRUE, n |-> Len(inputs)]]
  /\ pc' = "ret0"
  /\ UNCHANGED <<tags, query, retry, serial, run_id, repeats, repeats0, inputs, rowst, given, conns, loads, exc, usesPool, dvars, ovars>>

\* lines 138-143: except ExternalError
HandleExternal ==
  /\ pc \in {"apply", "stream"}
  /\ exc = "external"
  /\ status' = [status EXCEPT ![run_id] = "failed"]
  /\ pc' = "ret1"
  /\ UNCHANGED <<tags, query, retry, serial, run_id, n_inputs, repeats, repeats0, inputs, rowst, given, conns, loads, exc, usesPool, dvars, ovars>>

\* the try statement has no other handler: any other exception leaves run_gen
Propagate ==
  /\ pc \in {"apply", "stream"}
  /\ exc = "fatal"
  /\ pc' = "raised"
  /\ UNCHANGED <<tags, query, retry, serial, run_id, status, n_inputs, repeats, repeats0, inputs, rowst, given, conns, loads, exc, usesPool, dvars, ovars>>

(***************************************************************************)
(* run_airflow and the DAG file it emits                                   *)
(***************************************************************************)
GenNames == {"G1", "G2", "G3"}

\* self.gens: the model's generators in the order of the dict
GenOrders == {g \in [1..Cardinality(GenNames) -> GenNames] : \A i, j \in DOMAIN g : i # j => g[i] # g[j]}

Before(g, a, b) == \E i, j \in DOMAIN g : g[i] = a /\ g[j] = b /\ i < j

\* self._gen_graph().edges(): the edges A -> B of an acyclic dependency graph
GenGraphs == {E \in SUBSET {e \in GenNames \X GenNames : e[1] # e[2]} : \E g \in GenOrders : \A e \in E : Before(g, e[1], e[2])}

NoFile == [written |-> FALSE, operators |-> <<>>, upstream |-> [g \in GenNames |-> {}]]

MutantUpstreamReversed(e, g) == {x[2] : x \in {y \in e : y[1] = g}}

\* template lines 36-38: for child,parent in deps: parent.set_upstream(child)
Upstream(e, g) == {x[1] : x \in {y \in e : y[2] = g}}

\* lines 69-80: operators keyed in the order of self.gens, deps the graph's edges
Render(gs, e) == [written |-> TRUE, operators |-> gs, upstream |-> [g \in GenNames |-> Upstream(e, g)]]

\* a str argument listing names is held as the sequence of its words
Words(s) == {s[i] : i \in DOMAIN s}

Unknown == "Gx"
NukeArgs == {"", "T"}
StartArgs == {"", "G1", Unknown}
UntilArgs == {"", "G2", Unknown}
XcludeArgs == {<<>>, <<"G3">>, <<"G3", Unknown>>}
OnlyArgs == {<<>>, <<"G1", "G2">>, <<Unknown>>}
AirflowArgs == [nuke : NukeArgs, start : StartArgs, until : UntilArgs, xclude : XcludeArgs, only : OnlyArgs]

\* w in self.gens
IsGen(w) == \E i \in DOMAIN gens : gens[i] = w

\* self._validate_name(w): passes for the name of a generator of the model
ValidName(w) == IsGen(w)

MutantValidateStartUntil(a) == IF a.start # "" /\ ~IsGen(a.start) THEN "startErr" ELSE IF a.until # "" /\ ~IsGen(a.until) THEN "tillErr" ELSE "ok"

\* lines 32-39: the asserts on start and until, then _validate_name on each word of only and xclude
ValidateInput(a) == IF a.start # "" /\ ~IsGen(a.start) THEN "startErr" ELSE IF a.until # "" /\ ~IsGen(a.until) THEN "tillErr" ELSE IF \E w \in Words(a.only) \cup Words(a.xclude) : ~ValidName(w) THEN "nameErr" ELSE "ok"

\* lines 49-50: make_schema runs when nuke is a non-empty str, and leaves the schema in place
SchemaAfterNuke(a, exists) == IF a.nuke # "" THEN TRUE ELSE exists

MutantNoSchemaCheck(exists) == "written"

\* lines 53-54: raise ValueError unless check_schema_exists
CheckSchema(exists) == IF exists THEN "written" ELSE "schemaErr"

\* lines 58-66: the run row _make_metatables is handed
RunRow(a) == [only |-> Words(a.only), xclude |-> Words(a.xclude), start |-> a.start, until |-> a.until]

\* run_airflow lines 31-86: validate, nuke, check the schema, make the metatables,
\* render the template and write the file
RunAirflow(a) ==
  /\ ~dagfile.written
  /\ LET v == ValidateInput(a)
         exists == IF v = "ok" THEN SchemaAfterNuke(a, schema) ELSE schema
         out == IF v = "ok" THEN CheckSchema(exists) ELSE v
     IN /\ aout' = out
        /\ schema' = exists
        /\ nuked' = (nuked \/ (v = "ok" /\ a.nuke # ""))
        /\ runs' = IF out = "written" THEN runs \cup {RunRow(a)} ELSE runs
        /\ dagfile' = IF out = "written" THEN Render(gens, deps) ELSE dagfile
  /\ UNCHANGED <<gens, deps, mode, gstate, gvars, ovars>>

\* the file is loaded by the airflow scheduler, or executed as a script
RunFile(m) ==
  /\ dagfile.written
  /\ mode = "none"
  /\ mode' = m
  /\ UNCHANGED <<gens, deps, dagfile, gstate, avars, gvars, ovars>>

\* template lines 30-38: a PythonOperator starts once its upstream tasks succeeded
TaskStart(g) ==
  /\ mode = "airflow"
  /\ gstate[g] = "none"
  /\ \A u \in dagfile.upstream[g] : gstate[u] = "success"
  /\ gstate' = [gstate EXCEPT ![g] = "running"]
  /\ UNCHANGED <<gens, deps, dagfile, mode, avars, gvars, ovars>>

\* template lines 40-43: f_X() for each operator in the order of operators.keys()
MainCall ==
  /\ mode = "main"
  /\ \A g \in GenNames : gstate[g] \in {"none", "success"}
  /\ \E i \in DOMAIN dagfile.operators :
       /\ gstate[dagfile.operators[i]] = "none"
       /\ \A j \in 1..(i - 1) : gstate[dagfile.operators[j]] # "none"
       /\ gstate' = [gstate EXCEPT ![dagfile.operators[i]] = "running"]
  /\ UNCHANGED <<gens, deps, dagfile, mode, avars, gvars, ovars>>

\* template lines 16-17: the callable f_X returns, or raises
CallableEnd(g, ok) ==
  /\ gstate[g] = "running"
  /\ gstate' = [gstate EXCEPT ![g] = IF ok THEN "success" ELSE "failed"]
  /\ UNCHANGED <<gens, deps, dagfile, mode, avars, gvars, ovars>>

(***************************************************************************)
(* Generator: attached nodes and the computational graph                   *)
(***************************************************************************)
MaxNodes == 3

\* the hash of Extract(), the placeholder a generator is given by default
DEFAULT_EXTRACT == 5

EmptyDependency == [tables_needed |-> {}, columns_needed |-> {}, tables_yielded |-> {}, columns_yielded |-> {}]
ExtraDependency == [tables_needed |-> {"t0"}, columns_needed |-> {}, tables_yielded |-> {}, columns_yielded |-> {}]

\* the nodes a generator can be given, by hash: kind is the class add_node tests with
\* isinstance, cls the node's own class, args the keys of its Arg inputs,
\* dep what its _get_dependency() contributes.
\*   5 Extract() placeholder      4 a user's Extract(...)     6 a user's query
\*   3 transform on 4             1 transform on 3            2 load of e1 on 1
\*   8 and 9: transforms wired to each other
NodeTable == [h \in 1..9 |->
  CASE h = 5 -> [kind |-> "Extract", cls |-> "Extract", args |-> {}, dep |-> EmptyDependency]
    [] h = 4 -> [kind |-> "Extract", cls |-> "Extract", args |-> {}, dep |-> EmptyDependency]
    [] h = 6 -> [kind |-> "Extract", cls |-> "BaseQuery", args |-> {}, dep |-> [EmptyDependency EXCEPT !.tables_needed = {"t1"}, !.columns_needed = {"t1.c"}]]
    [] h = 3 -> [kind |-> "Transform", cls |-> "Transform", args |-> {4}, dep |-> EmptyDependency]
    [] h = 1 -> [kind |-> "Transform", cls |-> "Transform", args |-> {3}, dep |-> EmptyDependency]
    [] h = 2 -> [kind |-> "Load", cls |-> "Load", args |-> {1}, dep |-> [EmptyDependency EXCEPT !.tables_yielded = {"e1"}, !.columns_yielded = {"e1.a"}]]
    [] h = 8 -> [kind |-> "Transform", cls |-> "Transform", args |-> {9}, dep |-> EmptyDependency]
    [] h = 9 -> [kind |-> "Transform", cls |-> "Transform", args |-> {8}, dep |-> EmptyDependency]
    [] OTHER -> [kind |-> "Load", cls |-> "Load", args |-> {}, dep |-> [EmptyDependency EXCEPT !.tables_yielded = {"e2"}, !.columns_yielded = {"e2.a"}]]]

NodesOfKind(k) == {h \in DOMAIN NodeTable : NodeTable[h].kind = k}

NoGraph == [built |-> FALSE, nodes |-> {}, edges |-> {}]

\* the hashes of loads + transforms + [extract]
Hashes(e, t, l) == {e} \cup {t[i] : i \in DOMAIN t} \cup {l[i] : i \in DOMAIN l}
Attached == Hashes(extract, transforms, gen_loads)

\* validate_nodes: some Arg of some node has a key that is not among the hashes
MissingNode(hs) == \E n \in hs : \E k \in NodeTable[n].args : k \notin hs

\* _computational_graph lines 124-134: an edge (arg.key, node_id) for every Arg
Edges(hs) == {e \in hs \X hs : e[1] \in NodeTable[e[2]].args}

\* _computational_graph lines 117-141: the memo when there is one, else the graph of the
\* nodes attached now
ComputationalGraphOf == IF graph.built THEN graph ELSE [built |-> TRUE, nodes |-> Attached, edges |-> Edges(Attached)]

\* lines 129-133: raised while the graph is being built, so no memo is left
RaisesMissingInfo == ~graph.built /\ MissingNode(Attached)

\* networkx lexicographical_topological_sort: repeatedly the least node with no
\* predecessor left; stops short when every node left has one
RECURSIVE LexTopSort(_, _)
LexTopSort(ns, es) == LET free == {n \in ns : ~\E e \in es : e[2] = n /\ e[1] \in ns} IN IF free = {} THEN <<>> ELSE LET m == CHOOSE x \in free : \A y \in free : x <= y IN <<m>> \o LexTopSort(ns \ {m}, es)

\* graphs.py lines 29-34: the sorted ids, or ValueError("Cycles found: ...")
topsort_with_dict(G) == LET s == LexTopSort(G.nodes, G.edges) IN IF Len(s) = Cardinality(G.nodes) THEN [err |-> "none", sortd |-> s] ELSE [err |-> "Cycles found", sortd |-> <<>>]

NotExtract(k) == NodeTable[k].kind # "Extract"
IsLoad(k) == NodeTable[k].kind = "Load"

\* _sort_graph lines 143-151
SortGraphOf == IF RaisesMissingInfo THEN [err |-> "DBgenMissingInfo", graph |-> graph, order |-> <<>>] ELSE LET g == ComputationalGraphOf t == topsort_with_dict(g) IN IF t.err # "none" THEN [err |-> t.err, graph |-> g, order |-> <<>>] ELSE [err |-> "none", graph |-> g, order |-> <<extract>> \o SelectSeq(t.sortd, NotExtract)]

\* Dependency.merge: the union, field by field
Merge(p, n) == [f \in DOMAIN p |-> p[f] \cup n[f]]

\* _get_dependency line 160: reduce(merge, dep_list, Dependency())
RECURSIVE Reduce(_, _)
Reduce(acc, order) == IF order = <<>> THEN acc ELSE Reduce(Merge(acc, NodeTable[Head(order)].dep), Tail(order))

\* __init__ raised: there is no generator to call anything on
Constructed == ~(op = "init" /\ err # "none")

\* __enter__
Enter ==
  /\ Constructed
  /\ ~ctx
  /\ ctx' = TRUE
  /\ op' = "enter"
  /\ err' = "none"
  /\ ret' = <<>>
  /\ invoked' = <<>>
  /\ UNCHANGED <<extract, transforms, gen_loads, graph, dependency, additional_dependencies, gvars, dvars, evars, xvars>>

\* __exit__: leave the context, then validate_nodes
Exit_ ==
  /\ Constructed
  /\ ctx
  /\ ctx' = FALSE
  /\ op' = "exit"
  /\ err' = IF MissingNode(Attached) THEN "ValueError: missing node" ELSE "none"
  /\ ret' = <<>>
  /\ invoked' = <<>>
  /\ UNCHANGED <<extract, transforms, gen_loads, graph, dependency, additional_dependencies, gvars, dvars, evars, xvars>>

\* add_node lines 198-215, called by a node built inside the with-block or by the user
AddNode(n) ==
  /\ Constructed
  /\ NodeTable[n].kind = "Extract" \/ Len(transforms) + Len(gen_loads) < MaxNodes
  /\ op' = "add_node"
  /\ ret' = <<>>
  /\ invoked' = <<>>
  /\ IF NodeTable[n].kind = "Extract"
       THEN IF NodeTable[extract].cls = NodeTable[DEFAULT_EXTRACT].cls
              THEN extract' = n /\ err' = "none"
              ELSE extract' = extract /\ err' = "ValueError: 1 extractor"
       ELSE extract' = extract /\ err' = "none"
  /\ transforms' = IF NodeTable[n].kind = "Transform" THEN Append(transforms, n) ELSE transforms
  /\ gen_loads' = IF NodeTable[n].kind = "Load" THEN Append(gen_loads, n) ELSE gen_loads
  /\ UNCHANGED <<graph, dependency, additional_dependencies, ctx, gvars, dvars, evars, xvars>>

\* _computational_graph
ComputationalGraph ==
  /\ Constructed
  /\ op' = "_computational_graph"
  /\ err' = IF RaisesMissingInfo THEN "DBgenMissingInfo" ELSE "none"
  /\ graph' = IF RaisesMissingInfo THEN graph ELSE ComputationalGraphOf
  /\ ret' = <<>>
  /\ invoked' = <<>>
  /\ UNCHANGED <<extract, transforms, gen_loads, dependency, additional_dependencies, ctx, gvars, dvars, evars, xvars>>

\* _sort_graph
SortGraph ==
  /\ Constructed
  /\ op' = "_sort_graph"
  /\ err' = SortGraphOf.err
  /\ graph' = SortGraphOf.graph
  /\ ret' = SortGraphOf.order
  /\ invoked' = <<>>
  /\ UNCHANGED <<extract, transforms, gen_loads, dependency, additional_dependencies, ctx, gvars, dvars, evars, xvars>>

\* _sorted_loads lines 153-155
SortedLoads ==
  /\ Constructed
  /\ op' = "_sorted_loads"
  /\ err' = SortGraphOf.err
  /\ graph' = SortGraphOf.graph
  /\ ret' = SelectSeq(SortGraphOf.order, IsLoad)
  /\ invoked' = <<>>
  /\ UNCHANGED <<extract, transforms, gen_loads, dependency, additional_dependencies, ctx, gvars, dvars, evars, xvars>>

\* _get_dependency lines 157-161
GetDependency ==
  /\ Constructed
  /\ op' = "_get_dependency"
  /\ err' = SortGraphOf.err
  /\ graph' = SortGraphOf.graph
  /\ dependency' = IF SortGraphOf.err = "none" THEN Reduce(Merge(EmptyDependency, additional_dependencies), SortGraphOf.order) ELSE dependency
  /\ ret' = <<>>
  /\ invoked' = <<>>
  /\ UNCHANGED <<extract, transforms, gen_loads, additional_dependencies, ctx, gvars, dvars, evars, xvars>>

\* run lines 180-196: GeneratorRun.execute sorts the graph, then invokes the nodes in that order
Run ==
  /\ Constructed
  /\ ~ctx
  /\ op' = "run"
  /\ err' = SortGraphOf.err
  /\ graph' = SortGraphOf.graph
  /\ ret' = <<>>
  /\ invoked' = SortGraphOf.order
  /\ UNCHANGED <<extract, transforms, gen_loads, dependency, additional_dependencies, ctx, gvars, dvars, evars, xvars>>

NodeIdle ==
  /\ extract = DEFAULT_EXTRACT
  /\ transforms = <<>>
  /\ gen_loads = <<>>
  /\ graph = NoGraph
  /\ dependency = EmptyDependency
  /\ additional_dependencies = EmptyDependency
  /\ ctx = FALSE
  /\ op = "none"
  /\ err = "none"
  /\ ret = <<>>
  /\ invoked = <<>>

(***************************************************************************)
(* Entity: the LoadEntity of a class and the id of an instance             *)
(***************************************************************************)
MaxEntities == 2

\* the entity classes: _is_table, __tablename__, __schema__, __identifying__ and the
\* columns of the table with their type, whether they carry a foreign key, and whether
\* they are part of the primary key.
\*   E: a table identified by attribute a and foreign key p_id     V: not a table
\*   M: a table with two primary key columns                       N: a table with none
EntityColumns(pks) == {[name |-> "id", type |-> "UUID", fk |-> FALSE, pk |-> "id" \in pks], [name |-> "gen_id", type |-> "UUID", fk |-> FALSE, pk |-> FALSE], [name |-> "created_at", type |-> "datetime", fk |-> FALSE, pk |-> FALSE], [name |-> "a", type |-> "str", fk |-> FALSE, pk |-> "a" \in pks], [name |-> "b", type |-> "int", fk |-> FALSE, pk |-> FALSE], [name |-> "p_id", type |-> "UUID", fk |-> TRUE, pk |-> FALSE]}
EntityClass(is_table, pks) == [is_table |-> is_table, tablename |-> "e", schema |-> "public", identifying |-> {"a", "p_id"}, columns |-> EntityColumns(pks)]
EntityTable == [c \in {"E", "V", "M", "N"} |-> CASE c = "E" -> EntityClass(TRUE, {"id"}) [] c = "V" -> EntityClass(FALSE, {"id"}) [] c = "M" -> EntityClass(TRUE, {"id", "a"}) [] OTHER -> EntityClass(TRUE, {})]

\* the keyword arguments an instance is made from (0 stands for a value left out)
EntityValues == [id : {0, 1}, gen_id : {0, 1}, created_at : {0, 1}, a : {0, 1}, b : {0, 1}, p_id : {0, 1}]

\* line 203: the columns without a foreign key; line 204: those with one
all_attrs(cls) == {col.name : col \in {c \in cls.columns : ~c.fk}}
all_fks(cls) == {col.name : col \in {c \in cls.columns : c.fk}}

MutantAllAttributes(cls) == [x \in all_attrs(cls) |-> (CHOOSE c \in cls.columns : c.name = x).type]

\* lines 205-207: name -> type name of the attributes that are in __identifying__
identifying_attributes(cls) == [x \in all_attrs(cls) \cap cls.identifying |-> (CHOOSE c \in cls.columns : c.name = x).type]

MutantIdentifyingFks(cls) == all_fks(cls)

\* line 208
identifying_fks(cls) == all_fks(cls) \cap cls.identifying

\* _get_load_entity lines 189-215
GetLoadEntity(cls) == LET primary_keys == {c.name : c \in {k \in cls.columns : k.pk}} IN IF ~cls.is_table THEN [err |-> "ValueError: not a table"] ELSE IF Cardinality(primary_keys) > 1 THEN [err |-> "NotImplementedError"] ELSE IF primary_keys = {} THEN [err |-> "ValueError: no primary key"] ELSE [err |-> "none", name |-> cls.tablename, schema_ |-> cls.schema, primary_key_name |-> CHOOSE k \in primary_keys : TRUE, identifying_attributes |-> identifying_attributes(cls), identifying_foreign_keys |-> identifying_fks(cls)]

\* a digest is a number; this one is one-to-one on what it is given: a place of its own
\* for each column name, and the table's name above them
Place == [id |-> 1, gen_id |-> 2, created_at |-> 4, a |-> 8, b |-> 16, p_id |-> 32]
RECURSIVE Digest(_, _)
Digest(names, values) == IF names = {} THEN 0 ELSE LET k == CHOOSE x \in names : TRUE IN values[k] * Place[k] + Digest(names \ {k}, values)

\* LoadEntity._get_hash: a digest of the entity's name and of the values held under its
\* identifying attributes and identifying foreign keys
GetHash(le, values) == (IF le.schema_ = "public" /\ le.name = "e" THEN 64 ELSE 128) + Digest(DOMAIN le.identifying_attributes \cup le.identifying_foreign_keys, values)

\* Entity._get_id lines 349-354: the root validator that runs when an instance is made
NewEntity(c, v) ==
  /\ Cardinality(instances) < MaxEntities
  /\ LET cls == EntityTable[c]
         le == GetLoadEntity(cls)
     IN IF ~cls.is_table
          THEN instances' = instances \cup {[entity |-> c, given |-> v, values |-> v]} /\ eerr' = "none"
          ELSE IF le.err # "none"
                 THEN instances' = instances /\ eerr' = le.err
                 ELSE instances' = instances \cup {[entity |-> c, given |-> v, values |-> [v EXCEPT !.id = GetHash(le, v)]]} /\ eerr' = "none"
  /\ UNCHANGED <<gvars, dvars, nvars, xvars>>

EntityIdle ==
  /\ instances = {}
  /\ eerr = "none"

(***************************************************************************)
(* BaseEntity.load and _get_load_entity                                    *)
(***************************************************************************)
\* a class like E of EntityTable, with the __identifying__ set ids
EntityClassWith(is_table, pks, ids) == [EntityClass(is_table, pks) EXCEPT !.identifying = ids]

\* the classes load and _get_load_entity are called on: tables with one primary key and
\* any identifying set over a, b (attributes) and p_id (a foreign key), and the classes
\* V, M, N of EntityTable
LoadClasses == {EntityClassWith(TRUE, {"id"}, ids) : ids \in SUBSET {"a", "b", "p_id"}} \cup {EntityTable[c] : c \in DOMAIN EntityTable}

\* the keyword arguments of load: for each name whether it is left out, or what it is
\* given: an Arg or Const (Const(None) included), a Load, or a raw python value.
\* "e" is the table's own name (the primary key override), "zz" names no column.
KwargNames == {"a", "b", "p_id", "e", "zz"}
KwargKinds == {"absent", "Const", "Load", "raw"}
Given(kw) == {k \in KwargNames : kw[k] # "absent"}

NoLoad == [err |-> "none", primary_key |-> "absent", inputs |-> {}, identifying_attributes |-> {}, identifying_foreign_keys |-> {}]

MutantLoadNoMissingCheck(cls, kw) == {}

\* load lines 226-236: the identifying names missing from kwargs when no PK is given
MissingIds(cls, kw) == IF kw[cls.tablename] # "absent" THEN {} ELSE cls.identifying \ (Given(kw) \ {cls.tablename})

\* load lines 239-246: the kwargs left that are neither an attribute nor a foreign key
UnknownKwargs(cls, kw) == ((Given(kw) \ {cls.tablename}) \ all_attrs(cls)) \ all_fks(cls)

\* load lines 217-257: what the call raises, or the Load it returns
LoadOf(cls, kw) == LET le == GetLoadEntity(cls) IN
  IF \E k \in Given(kw) : kw[k] = "raw" THEN [NoLoad EXCEPT !.err = "ValueError: Non ArgLike kwargs"]
  ELSE IF MissingIds(cls, kw) # {} THEN [NoLoad EXCEPT !.err = "DBgenMissingInfo"]
  ELSE IF ~cls.is_table THEN [NoLoad EXCEPT !.err = "ValueError: not in metadata"]
  ELSE IF UnknownKwargs(cls, kw) # {} THEN [NoLoad EXCEPT !.err = "DBgenInvalidArgument"]
  ELSE IF le.err # "none" THEN [NoLoad EXCEPT !.err = le.err]
  ELSE [err |-> "none", primary_key |-> kw[cls.tablename], inputs |-> Given(kw) \ {cls.tablename}, identifying_attributes |-> DOMAIN le.identifying_attributes, identifying_foreign_keys |-> le.identifying_foreign_keys]

\* lcall.cls.load(**lcall.kw)
Load ==
  /\ lcall.op = "none"
  /\ lcall' = [lcall EXCEPT !.op = "load", !.res = LoadOf(lcall.cls, lcall.kw)]
  /\ UNCHANGED <<gvars, dvars, nvars, evars, cvars, svars, ivars>>

\* lcall.cls._get_load_entity()
CallGetLoadEntity ==
  /\ lcall.op = "none"
  /\ LET le == GetLoadEntity(lcall.cls) IN
       lcall' = [lcall EXCEPT !.op = "_get_load_entity", !.res = IF le.err # "none" THEN [NoLoad EXCEPT !.err = le.err] ELSE [NoLoad EXCEPT !.identifying_attributes = DOMAIN le.identifying_attributes, !.identifying_foreign_keys = le.identifying_foreign_keys]]
  /\ UNCHANGED <<gvars, dvars, nvars, evars, cvars, svars, ivars>>

LoadIdle == lcall = [op |-> "none", cls |-> EntityTable["E"], kw |-> [k \in KwargNames |-> "absent"], res |-> NoLoad]

(***************************************************************************)
(* EntityMetaclass: declaring entity classes, the registry                 *)
(***************************************************************************)
MaxClasses == 3
MaxBases == 2

\* the class bodies that are declared: class <name>(<bases>, table=.., all_id=..) with
\* __identifying__ = ids (when has_ids), the annotated fields, and __schema__ = schema_
\* ("" when the body sets none). The fourth body identifies by "y" and
\* annotates nothing: an unknown identifier unless a base has the field.
ClassBodies == <<
  [tablename |-> "b", has_ids |-> TRUE, ids |-> {"x"}, annotations |-> {"x"}, all_id |-> FALSE, table |-> FALSE, schema_ |-> "s1"],
  [tablename |-> "b", has_ids |-> FALSE, ids |-> {}, annotations |-> {"y"}, all_id |-> TRUE, table |-> FALSE, schema_ |-> "s2"],
  [tablename |-> "a", has_ids |-> FALSE, ids |-> {}, annotations |-> {}, all_id |-> FALSE, table |-> TRUE, schema_ |-> ""],
  [tablename |-> "b", has_ids |-> TRUE, ids |-> {"y"}, annotations |-> {}, all_id |-> FALSE, table |-> TRUE, schema_ |-> ""],
  [tablename |-> "b", has_ids |-> FALSE, ids |-> {}, annotations |-> {}, all_id |-> FALSE, table |-> FALSE, schema_ |-> ""]>>

\* the bodies user classes are declared with; the last one is BaseEntity's
UserBodies == 1..(Len(ClassBodies) - 1)

\* a class that is no entity (SQLModel, a mixin): no __schema__, no __identifying__
PlainClass == [tablename |-> "", body |-> 0, bases |-> <<>>, identifying |-> {}, hashinclude |-> {}, fields |-> {}, schema_ |-> "", is_table |-> FALSE, config_table |-> FALSE, fulltablename |-> <<"", "">>]

\* inherit_field lines 50-57 with the default joiner: the union over the bases
RECURSIVE inherit_field(_, _, _)
inherit_field(cs, bases, field_name) == IF bases = <<>> THEN {} ELSE inherit_field(cs, SubSeq(bases, 1, Len(bases) - 1), field_name) \cup cs[bases[Len(bases)]][field_name]

MutantLastBase(cs, bases) == cs[bases[Len(bases)]].schema_

\* overwrite_parent line 60: inherit_field over reversed(bases) with the joiner that keeps
\* the later value, so the value of bases[0] is the one left at the end
overwrite_parent(cs, bases) == IF bases = <<>> THEN "" ELSE cs[bases[1]].schema_

\* getattr(cls, "__schema__", "") on a class whose body sets none: the attribute of the
\* first class in the method resolution order that has one
RECURSIVE GetattrSchema(_, _)
GetattrSchema(cs, bases) == IF bases = <<>> THEN "" ELSE IF cs[bases[1]].schema_ # "" THEN cs[bases[1]].schema_ ELSE GetattrSchema(cs, Tail(bases))

\* lines 123-127
SchemaOf(cs, body, bases) == LET own == IF body.schema_ # "" THEN body.schema_ ELSE GetattrSchema(cs, bases)
                                 schema_ == IF own # "" THEN own ELSE overwrite_parent(cs, bases)
                             IN IF schema_ = "" THEN "public" ELSE schema_

MutantOwnIdsOnly(cs, body, bases) == body.ids

\* lines 87-101
IdentifyingOf(cs, body, bases) == (body.ids \cup inherit_field(cs, bases, "identifying")) \cup (IF body.all_id THEN body.annotations ELSE {})

HashIncludeOf(cs, body, bases) == inherit_field(cs, bases, "hashinclude") \cup IdentifyingOf(cs, body, bases)

\* cls.__fields__: the annotated fields of the body and of the bases
FieldsOf(cs, body, bases) == body.annotations \cup inherit_field(cs, bases, "fields")

MutantNoUnknownIds(cs, body, bases) == {}

\* lines 141-146
unknown_ids(cs, body, bases) == IdentifyingOf(cs, body, bases) \ FieldsOf(cs, body, bases)

\* EntityMetaclass.__new__ lines 85-151: the class made, or what is raised
NewClass(cs, b, bases) == LET body == ClassBodies[b]
                              config_table == body.table \/ \E i \in 1..Len(bases) : cs[bases[i]].config_table
                              is_table == config_table /\ body.table
                              schema_ == SchemaOf(cs, body, bases)
                              cls == [tablename |-> body.tablename, body |-> b, bases |-> bases, identifying |-> IdentifyingOf(cs, body, bases), hashinclude |-> HashIncludeOf(cs, body, bases), fields |-> FieldsOf(cs, body, bases), schema_ |-> schema_, is_table |-> is_table, config_table |-> config_table, fulltablename |-> <<schema_, body.tablename>>]
                          IN IF body.all_id /\ body.has_ids THEN [err |-> "AssertionError", cls |-> PlainClass]
                             ELSE IF is_table /\ \E i \in 1..Len(bases) : cs[bases[i]].config_table THEN [err |-> "ValueError: table base", cls |-> PlainClass]
                             ELSE IF unknown_ids(cs, body, bases) # {} THEN [err |-> "ValueError: unknown ids", cls |-> PlainClass]
                             ELSE [err |-> "none", cls |-> cls]

MutantNoDuplicateCheck(reg, cls) == FALSE

\* EntityMetaclass.__init__ lines 154-156
AlreadyPresent(reg, cls) == cls.is_table /\ cls.fulltablename \in reg

\* BaseEntity is made by the metaclass like any entity, from bases that are no entities
BaseEntityClass == [NewClass(<<PlainClass>>, 5, <<1>>).cls EXCEPT !.tablename = "baseentity", !.body = 0, !.fields = {"id"}, !.fulltablename = <<@[1], "baseentity">>]

\* the base lists of a declaration: up to MaxBases different entity classes
BasesOver(n) == {bs \in UNION {[1..k -> 2..n] : k \in 1..MaxBases} : \A i, j \in DOMAIN bs : i # j => bs[i] # bs[j]}

\* class <body b>(<bases>): __new__, then __init__, which registers a table
Declare(b, bases) ==
  /\ Len(classes) < 2 + MaxClasses
  /\ LET new == NewClass(classes, b, bases) IN
       IF new.err # "none"
       THEN derr' = new.err /\ UNCHANGED <<classes, registry>>
       ELSE IF AlreadyPresent(registry, new.cls)
       THEN derr' = "ValueError: already present" /\ UNCHANGED <<classes, registry>>
       ELSE /\ derr' = "none"
            /\ classes' = Append(classes, new.cls)
            /\ registry' = IF new.cls.is_table THEN registry \cup {new.cls.fulltablename} ELSE registry
  /\ UNCHANGED <<gvars, dvars, nvars, evars, lvars, svars, ivars>>

\* Entity.clear_registry() lines 313-317
ClearRegistry ==
  /\ registry # {}
  /\ registry' = {}
  /\ derr' = "none"
  /\ UNCHANGED <<classes, gvars, dvars, nvars, evars, lvars, svars, ivars>>

DeclIdle ==
  /\ classes = <<PlainClass, BaseEntityClass>>
  /\ registry = {}
  /\ derr = "none"

(***************************************************************************)
(* utils/misc.py: to_dict, from_dict, Base.toJSON / fromJSON / hash        *)
(***************************************************************************)
MaxItems == 2

\* a python value: its type name, the key it is stored under (in a dict or as an
\* attribute of an object), its payload, and its elements
Mk(t, items) == [t |-> t, key |-> "", n |-> 0, s |-> "", items |-> items]
Str(s) == [Mk("str", <<>>) EXCEPT !.s = s]
Keyed(v, k) == [v EXCEPT !.key = k]
Unkeyed(v) == [v EXCEPT !.key = ""]

simple == {"int", "str", "float", "NoneType", "bool"}
Atoms == {[Mk("int", <<>>) EXCEPT !.n = 1], Str("s"), Mk("NoneType", <<>>), [Mk("bool", <<>>) EXCEPT !.n = 1], [Mk("float", <<>>) EXCEPT !.n = 1]}
Rank(v) == CASE v.t = "int" -> 1 [] v.t = "str" -> 2 [] v.t = "NoneType" -> 3 [] v.t = "bool" -> 4 [] OTHER -> 5
AtomSeqs == UNION {[1..k -> Atoms] : k \in 0..MaxItems}

\* the keys there are, in sorted order
AllKeys == <<"_pytype", "_uid", "_value", "a", "b", "k">>
RECURSIVE EntriesFrom(_, _)
EntriesFrom(i, f) == IF i > Len(AllKeys) THEN <<>> ELSE (IF AllKeys[i] \in DOMAIN f THEN <<Keyed(f[AllKeys[i]], AllKeys[i])>> ELSE <<>>) \o EntriesFrom(i + 1, f)
Dict(f) == Mk("dict", EntriesFrom(1, f))
Has(x, k) == \E i \in DOMAIN x.items : x.items[i].key = k
Get(x, k) == Unkeyed(x.items[CHOOSE i \in DOMAIN x.items : x.items[i].key = k])

\* the values a field of an object holds: int, str, float, bool, None, and a list, a
\* tuple, a set or a dict with string keys of them
FieldValues == Atoms \cup {Mk(t, q) : t \in {"list", "tuple"}, q \in AtomSeqs} \cup {Mk("set", q) : q \in {p \in AtomSeqs : \A i, j \in DOMAIN p : i < j => Rank(p[i]) < Rank(p[j])}} \cup {Dict(f) : f \in UNION {[K -> Atoms] : K \in SUBSET {"k"}}}

\* the objects serialized: a dbgen class whose constructor takes a and b
ObjType == "dbgen.Obj"
ConstructorArgs == {"a", "b"}
Objects == {[Mk(ObjType, <<Keyed(a, "a"), Keyed(b, "b")>>) EXCEPT !.key = ""] : a \in FieldValues, b \in Atoms \cup {Mk("tuple", <<>>), Mk("list", <<>>)}}

\* hash_(json_dumps(hashdict)): a digest, one-to-one on what it is given
hash_(hashdict) == Mk("uid", <<hashdict>>)

\* line 45-46: module + '.' + ptype
PyType(t) == IF t = "tuple" THEN "builtins.tuple" ELSE IF t = "set" THEN "builtins.set" ELSE t

\* to_dict lines 43-68
RECURSIVE to_dict(_, _)
to_dict(x, id_only) ==
  IF x.t \in simple \cup {"uid"} THEN x
  ELSE IF x.t = "dict" THEN Mk("dict", [i \in DOMAIN x.items |-> Keyed(to_dict(Unkeyed(x.items[i]), id_only), x.items[i].key)])
  ELSE IF x.t = "list" THEN Mk("list", [i \in DOMAIN x.items |-> to_dict(x.items[i], id_only)])
  ELSE IF x.t \in {"tuple", "set"} THEN Dict("_pytype" :> Str(PyType(x.t)) @@ "_value" :> Mk("list", [i \in DOMAIN x.items |-> to_dict(x.items[i], id_only)]))
  ELSE LET data == [k \in ConstructorArgs |-> to_dict(Get(x, k), id_only)]
           metadata == "_pytype" :> Str(x.t)
           hashdict == Dict(metadata @@ [k \in ConstructorArgs |-> to_dict(data[k], TRUE)])
       IN IF id_only THEN Dict(metadata @@ data) ELSE Dict(metadata @@ ("_uid" :> hash_(hashdict)) @@ data)

\* from_dict lines 70-90 ('dbgen' in ptype: the one dbgen class there is)
RECURSIVE from_dict(_)
from_dict(x) ==
  IF x.t = "dict"
  THEN LET ptype == IF Has(x, "_pytype") THEN Get(x, "_pytype").s ELSE "" IN
       IF ptype = ObjType THEN Mk(ObjType, EntriesFrom(1, [k \in {x.items[i].key : i \in DOMAIN x.items} \cap ConstructorArgs |-> from_dict(Get(x, k))]))
       ELSE IF ptype = "builtins/tuple" THEN Mk("tuple", [i \in DOMAIN x.items |-> from_dict(Str(x.items[i].key))])
       ELSE IF ptype = "builtins/set" THEN Mk("set", [i \in DOMAIN x.items |-> from_dict(Str(x.items[i].key))])
       ELSE Mk("dict", [i \in DOMAIN x.items |-> Keyed(from_dict(Unkeyed(x.items[i])), x.items[i].key)])
  ELSE IF x.t = "list" THEN Mk("list", [i \in DOMAIN x.items |-> from_dict(x.items[i])])
  ELSE x

\* json.json_dumps(..., sort_keys=True) and json.loads: python values to JSON text and back
JsonKind == [int |-> "number", float |-> "number.0", str |-> "string", NoneType |-> "null", bool |-> "true", list |-> "array", dict |-> "object", uid |-> "digits"]
PyKind == [number |-> "int", number_0 |-> "float", string |-> "str", null |-> "NoneType", true |-> "bool", array |-> "list", object |-> "dict", digits |-> "uid"]
RECURSIVE json_dumps(_)
json_dumps(x) == [x EXCEPT !.t = JsonKind[x.t], !.items = [i \in DOMAIN x.items |-> json_dumps(x.items[i])]]
RECURSIVE json_loads(_)
json_loads(s) == [s EXCEPT !.t = IF s.t = "number.0" THEN PyKind.number_0 ELSE PyKind[s.t], !.items = [i \in DOMAIN s.items |-> json_loads(s.items[i])]]

\* Base.hash lines 144-148
Hash(x) == Get(to_dict(x, FALSE), "_uid")

Blank == Mk("NoneType", <<>>)

\* to_dict(sx)
ToDict ==
  /\ spc = "start"
  /\ sjson' = to_dict(sx, FALSE)
  /\ spc' = "to_dict"
  /\ UNCHANGED <<sx, sback, gvars, dvars, nvars, evars, lvars, cvars, ivars>>

\* from_dict(to_dict(sx))
FromDict ==
  /\ spc = "to_dict"
  /\ sback' = from_dict(sjson)
  /\ spc' = "from_dict"
  /\ UNCHANGED <<sx, sjson, gvars, dvars, nvars, evars, lvars, cvars, ivars>>

\* sx.toJSON() lines 130-131
ToJSON ==
  /\ spc = "start"
  /\ sjson' = json_dumps(to_dict(sx, FALSE))
  /\ spc' = "toJSON"
  /\ UNCHANGED <<sx, sback, gvars, dvars, nvars, evars, lvars, cvars, ivars>>

\* Base.fromJSON(sx.toJSON()) lines 133-139
FromJSON ==
  /\ spc = "toJSON"
  /\ sback' = from_dict(json_loads(sjson))
  /\ spc' = "fromJSON"
  /\ UNCHANGED <<sx, sjson, gvars, dvars, nvars, evars, lvars, cvars, ivars>>

SerIdle ==
  /\ sx = Blank
  /\ sjson = Blank
  /\ sback = Blank
  /\ spc = "idle"

(***************************************************************************)
(* utils/interact.py: interact_gen                                         *)
(***************************************************************************)
MaxInputRows == 3

\* the rows there are, and what the user can type at a prompt
RowIds == {1, 2}
RowAnswers == {"c", "C", "s", "q", "m", "x", ""}
DisplayAnswers == {"q", "Q", "query", "tbl", "zz", ""}
EnterAnswers == {"", "y"}

\* str.lower()
Lower(a) == CASE a = "C" -> "c" [] a = "Q" -> "q" [] OTHER -> a

\* gen.test(objs, [next_row], verbose=True): one namespace and one action dict for the row
GenTest(row) == [namespaces |-> <<[query |-> row, f |-> row + 10]>>, action_dicts |-> <<[tbl |-> <<row + 20>>]>>]

\* line 53: the head of the outer loop, with rows left
PopRow ==
  /\ ipc = "loop"
  /\ Len(input_rows) > 0 /\ answer # "q"
  /\ next_row' = Head(input_rows)
  /\ input_rows' = Tail(input_rows)
  /\ answer' = "None"
  /\ ipc' = "row_prompt"
  /\ UNCHANGED <<rows0, ilog, post_pyblocks, action_dicts, display, gvars, dvars, nvars, evars, lvars, cvars, svars>>

\* lines 53, 183-184: the head of the outer loop, with no row left
Exhausted ==
  /\ ipc = "loop"
  /\ ~(Len(input_rows) > 0 /\ answer # "q")
  /\ ipc' = "returned"
  /\ UNCHANGED <<rows0, input_rows, next_row, ilog, post_pyblocks, action_dicts, answer, display, gvars, dvars, nvars, evars, lvars, cvars, svars>>

MutantNeverSkips(a) == TRUE

\* lines 81-83: an answer other than s goes on to gen.test and the display prompts
Continues(a) == a # "s"

\* lines 64-98: one answer at the row prompt
RowAnswer(a) ==
  /\ ipc = "row_prompt"
  /\ answer' = Lower(a)
  /\ IF Lower(a) = "q"
     THEN /\ ipc' = "returned"
          /\ ilog' = Append(ilog, [row |-> next_row, answer |-> "q"])
          /\ UNCHANGED <<post_pyblocks, action_dicts, display>>
     ELSE IF Lower(a) \in {"c", "s"}
     THEN /\ ipc' = IF Continues(Lower(a)) THEN "pyblock" ELSE "loop"
          /\ ilog' = Append(ilog, [row |-> next_row, answer |-> Lower(a)])
          /\ display' = IF Continues(Lower(a)) THEN "" ELSE display
          /\ UNCHANGED <<post_pyblocks, action_dicts>>
     ELSE UNCHANGED <<ipc, ilog, post_pyblocks, action_dicts, display>>
  /\ UNCHANGED <<rows0, input_rows, next_row, gvars, dvars, nvars, evars, lvars, cvars, svars>>

\* lines 100-136: one answer at the pyblock prompt
PyblockAnswer(d) ==
  /\ ipc = "pyblock"
  /\ display' = IF Lower(d) = "q" THEN "" ELSE Lower(d)
  /\ ipc' = IF Lower(d) \in DOMAIN GenTest(next_row).namespaces[1] THEN "pyblock_enter" ELSE IF Lower(d) = "q" THEN "action" ELSE "pyblock"
  /\ UNCHANGED <<rows0, input_rows, next_row, ilog, post_pyblocks, action_dicts, answer, gvars, dvars, nvars, evars, lvars, cvars, svars>>

\* lines 137-181: one answer at the action prompt; on q the row's namespace and action
\* dict are appended
ActionAnswer(d) ==
  /\ ipc = "action"
  /\ display' = Lower(d)
  /\ IF Lower(d) \in DOMAIN GenTest(next_row).action_dicts[1]
     THEN ipc' = "action_enter" /\ UNCHANGED <<post_pyblocks, action_dicts>>
     ELSE IF Lower(d) = "q"
     THEN /\ ipc' = "loop"
          /\ post_pyblocks' = Append(post_pyblocks, GenTest(next_row).namespaces[1])
          /\ action_dicts' = Append(action_dicts, GenTest(next_row).action_dicts[1])
     ELSE UNCHANGED <<ipc, post_pyblocks, action_dicts>>
  /\ UNCHANGED <<rows0, input_rows, next_row, ilog, answer, gvars, dvars, nvars, evars, lvars, cvars, svars>>

\* lines 120-123 and 167-170: "Press enter to continue"
PressEnter(e) ==
  /\ ipc \in {"pyblock_enter", "action_enter"}
  /\ ipc' = IF e # "" THEN ipc ELSE IF ipc = "pyblock_enter" THEN "pyblock" ELSE "action"
  /\ UNCHANGED <<rows0, input_rows, next_row, ilog, post_pyblocks, action_dicts, answer, display, gvars, dvars, nvars, evars, lvars, cvars, svars>>

InteractIdle ==
  /\ rows0 = <<>>
  /\ input_rows = <<>>
  /\ next_row = 0
  /\ ilog = <<>>
  /\ post_pyblocks = <<>>
  /\ action_dicts = <<>>
  /\ answer = ""
  /\ display = ""
  /\ ipc = "idle"

\* the subsystems after Entity, idle
ExtraIdle ==
  /\ LoadIdle
  /\ DeclIdle
  /\ SerIdle
  /\ InteractIdle

DagIdle ==
  /\ gens = <<>>
  /\ deps = {}
  /\ dagfile = NoFile
  /\ mode = "none"
  /\ gstate = [g \in GenNames |-> "none"]
  /\ schema = FALSE
  /\ nuked = FALSE
  /\ runs = {}
  /\ aout = "none"

GenIdle ==
  /\ retry = FALSE
  /\ serial = FALSE
  /\ pc = "idle"
  /\ n_inputs = [r \in Runs |-> Unset]
  /\ repeats0 = {}
  /\ inputs = <<>>
  /\ rowst = <<>>
  /\ given = <<>>
  /\ conns = <<>>
  /\ loads = {}
  /\ exc = "none"
  /\ usesPool = FALSE

Init ==
  /\ tags \in SUBSET AllTags
  /\ query \in {NoQuery} \cup {QueryOfRows(t) : t \in SeqsUpTo(Recs, MaxRows)}
  /\ run_id = 0
  /\ status = [r \in Runs |-> "none"]
  /\ repeats = {}
  /\ GenIdle
  /\ DagIdle
  /\ NodeIdle
  /\ EntityIdle
  /\ ExtraIdle

Next ==
  \/ \E r \in BOOLEAN, s \in BOOLEAN : RunGenBatch(r, s)
  \/ \E r \in BOOLEAN, s \in BOOLEAN : RunGenStream(r, s)
  \/ \E i \in 1..Len(rowst) : Begin(i)
  \/ \E i \in 1..Len(rowst), out \in {"ok", "external", "fatal"} : Pb(i, out)
  \/ \E i \in 1..Len(rowst), out \in {"ok", "fatal"} : Act(i, out)
  \/ \E i \in 1..Len(rowst), out \in {"ok", "fatal"} : Rpt(i, out)
  \/ \E i \in 1..Len(rowst) : Exit(i)
  \/ \E out \in {"ok", "external", "fatal"} : StreamRow(out)
  \/ StreamComplete
  \/ Complete
  \/ HandleExternal
  \/ Propagate

Spec == Init /\ [][Next]_vars

\* a parallel-tagged generator whose query returns more rows than one chunk holds,
\* called without retry on an empty repeats table
InitPar ==
  /\ tags = {"parallel"}
  /\ query \in {QueryOfRows(t) : t \in SeqsOfLen(Recs, ParRows)}
  /\ run_id = MaxRuns - 1
  /\ status = [r \in Runs |-> "none"]
  /\ repeats = {}
  /\ GenIdle
  /\ DagIdle
  /\ NodeIdle
  /\ EntityIdle
  /\ ExtraIdle

NextPar ==
  \/ \E s \in BOOLEAN : RunGenBatch(FALSE, s)
  \/ \E i \in 1..Len(rowst) : Begin(i)
  \/ \E i \in 1..Len(rowst), out \in {"ok", "external", "fatal"} : Pb(i, out)
  \/ \E i \in 1..Len(rowst), out \in {"ok", "fatal"} : Act(i, out)
  \/ \E i \in 1..Len(rowst), out \in {"ok", "fatal"} : Rpt(i, out)
  \/ \E i \in 1..Len(rowst) : Exit(i)
  \/ Complete
  \/ HandleExternal
  \/ Propagate

SpecPar == InitPar /\ [][NextPar]_vars

InitDag ==
  /\ gens \in GenOrders
  /\ deps \in GenGraphs
  /\ dagfile = NoFile
  /\ mode = "none"
  /\ gstate = [g \in GenNames |-> "none"]
  /\ schema \in BOOLEAN
  /\ nuked = FALSE
  /\ runs = {}
  /\ aout = "none"
  /\ tags = {}
  /\ query = NoQuery
  /\ run_id = 0
  /\ status = [r \in Runs |-> "none"]
  /\ repeats = {}
  /\ GenIdle
  /\ NodeIdle
  /\ EntityIdle
  /\ ExtraIdle

NextDag ==
  \/ \E a \in AirflowArgs : RunAirflow(a)
  \/ \E m \in {"airflow", "main"} : RunFile(m)
  \/ \E g \in GenNames : TaskStart(g)
  \/ MainCall
  \/ \E g \in GenNames, ok \in BOOLEAN : CallableEnd(g, ok)

SpecDag == InitDag /\ [][NextDag]_vars

\* Generator(name, extract=..., transforms=..., loads=..., additional_dependencies=...)
\* outside any generator context: __init__ lines 63-67 validates the nodes it was given
InitGraph ==
  /\ extract \in NodesOfKind("Extract")
  /\ transforms \in SeqsUpTo(NodesOfKind("Transform"), 1)
  /\ gen_loads \in SeqsUpTo({2}, 1)
  /\ graph = NoGraph
  /\ dependency = EmptyDependency
  /\ additional_dependencies \in {EmptyDependency, ExtraDependency}
  /\ ctx = FALSE
  /\ op = "init"
  /\ err = IF MissingNode(Hashes(extract, transforms, gen_loads)) THEN "ValueError: missing node" ELSE "none"
  /\ ret = <<>>
  /\ invoked = <<>>
  /\ tags = {}
  /\ query = NoQuery
  /\ run_id = 0
  /\ status = [r \in Runs |-> "none"]
  /\ repeats = {}
  /\ GenIdle
  /\ DagIdle
  /\ EntityIdle
  /\ ExtraIdle

NextGraph ==
  \/ Enter
  \/ Exit_
  \/ \E n \in DOMAIN NodeTable \ {DEFAULT_EXTRACT} : AddNode(n)
  \/ ComputationalGraph
  \/ SortGraph
  \/ SortedLoads
  \/ GetDependency
  \/ Run

SpecGraph == InitGraph /\ [][NextGraph]_vars

InitEntity ==
  /\ EntityIdle
  /\ ExtraIdle
  /\ tags = {}
  /\ query = NoQuery
  /\ run_id = 0
  /\ status = [r \in Runs |-> "none"]
  /\ repeats = {}
  /\ GenIdle
  /\ DagIdle
  /\ NodeIdle

NextEntity == \E c \in DOMAIN EntityTable, v \in EntityValues : NewEntity(c, v)

SpecEntity == InitEntity /\ [][NextEntity]_vars

InitLoad ==
  /\ lcall \in [op : {"none"}, cls : LoadClasses, kw : [KwargNames -> KwargKinds], res : {NoLoad}]
  /\ DeclIdle
  /\ SerIdle
  /\ InteractIdle
  /\ tags = {}
  /\ query = NoQuery
  /\ run_id = 0
  /\ status = [r \in Runs |-> "none"]
  /\ repeats = {}
  /\ GenIdle
  /\ DagIdle
  /\ NodeIdle
  /\ EntityIdle

NextLoad ==
  \/ Load
  \/ CallGetLoadEntity

SpecLoad == InitLoad /\ [][NextLoad]_vars

InitDecl ==
  /\ ExtraIdle
  /\ tags = {}
  /\ query = NoQuery
  /\ run_id = 0
  /\ status = [r \in Runs |-> "none"]
  /\ repeats = {}
  /\ GenIdle
  /\ DagIdle
  /\ NodeIdle
  /\ EntityIdle

NextDecl ==
  \/ \E b \in UserBodies, bases \in BasesOver(Len(classes)) : Declare(b, bases)
  \/ ClearRegistry

SpecDecl == InitDecl /\ [][NextDecl]_vars

InitSer ==
  /\ sx \in Objects
  /\ sjson = Blank
  /\ sback = Blank
  /\ spc = "start"
  /\ LoadIdle
  /\ DeclIdle
  /\ InteractIdle
  /\ tags = {}
  /\ query = NoQuery
  /\ run_id = 0
  /\ status = [r \in Runs |-> "none"]
  /\ repeats = {}
  /\ GenIdle
  /\ DagIdle
  /\ NodeIdle
  /\ EntityIdle

NextSer ==
  \/ ToDict
  \/ FromDict
  \/ ToJSON
  \/ FromJSON

SpecSer == InitSer /\ [][NextSer]_vars

InitInteract ==
  /\ rows0 \in UNION {[1..k -> RowIds] : k \in 1..MaxInputRows}
  /\ input_rows = rows0
  /\ next_row = 0
  /\ ilog = <<>>
  /\ post_pyblocks = <<>>
  /\ action_dicts = <<>>
  /\ answer = ""
  /\ display = ""
  /\ ipc = "loop"
  /\ LoadIdle
  /\ DeclIdle
  /\ SerIdle
  /\ tags = {}
  /\ query = NoQuery
  /\ run_id = 0
  /\ status = [r \in Runs |-> "none"]
  /\ repeats = {}
  /\ GenIdle
  /\ DagIdle
  /\ NodeIdle
  /\ EntityIdle

NextInteract ==
  \/ PopRow
  \/ Exhausted
  \/ \E a \in RowAnswers : RowAnswer(a)
  \/ \E d \in DisplayAnswers : PyblockAnswer(d)
  \/ \E d \in DisplayAnswers : ActionAnswer(d)
  \/ \E e \in EnterAnswers : PressEnter(e)

SpecInteract == InitInteract /\ [][NextInteract]_vars

(***************************************************************************)
(* Properties                                                              *)
(***************************************************************************)
InRepeats(rp, u) == \E e \in rp : e.gen = AId /\ e.uid = u
Started(i) == rowst[i].ph \notin {"wait", "skip"}
NProcessed == Cardinality({i \in DOMAIN rowst : Started(i)})
Suppressed(row) == (~retry) /\ ("io" \notin tags) /\ InRepeats(repeats0, hasher(row))

\* the records of a non-stream call are exactly the unsuppressed rows of the query
SkipExactlyBatch == (~Stream /\ run_id > 0) => {inputs[k].ind : k \in DOMAIN inputs} = {i \in DOMAIN QueryInputs : ~Suppressed(QueryInputs[i])}

\* a row of the cursor is skipped exactly when it is suppressed
SkipExactlyStream == Stream => \A i \in DOMAIN rowst : (rowst[i].ph = "skip" => Suppressed(RowOf(i))) /\ (Started(i) => ~Suppressed(RowOf(i)))

\* a call without retry that follows a completed call processes no record
SecondRunZero == (run_id >= 2 /\ status[run_id - 1] = "completed" /\ ~retry /\ "io" \notin tags) => (NProcessed = 0 /\ repeats = repeats0)

\* the same, for generators without the stream tag
SecondRunZeroBatch == Stream \/ SecondRunZero

\* C1: a record is skipped exactly when retry is false, the generator is not
\* tagged io and (generator id, input hash) is in repeats; so a call without
\* retry after a completed call on the same inputs processes no record and
\* leaves repeats unchanged.
C1_RepeatSuppression == SkipExactlyBatch /\ SkipExactlyStream /\ SecondRunZero

\* C2: a record's key is written to repeats only after every transform and
\* every load of that record finished without raising; a record whose
\* processing raised has not written, and every row added to repeats by this
\* call belongs to a record that wrote.
C2_RepeatsAfterSuccess ==
  /\ \A i \in DOMAIN rowst : rowst[i].w => (rowst[i].f = Len(Funcs) /\ rowst[i].a = Len(Actions))
  /\ \A i \in DOMAIN rowst : rowst[i].ph \in Failed => ~rowst[i].w
  /\ \A e \in repeats \ repeats0 : \E i \in DOMAIN rowst : UidOf(i) = e.uid /\ rowst[i].w

\* one record wrote its key after its transforms and loads, another raised and left none
C2_Witness == \E i, j \in DOMAIN rowst : rowst[i].w /\ rowst[i].ph = "done" /\ InRepeats(repeats, UidOf(i)) /\ rowst[j].ph \in Failed /\ ~InRepeats(repeats, UidOf(j))

\* C3: when a transform raises ExternalError for one record, the call goes on
\* with the remaining records, ends with status completed, and repeats holds
\* exactly the records that succeeded.
C3_RowFailureIsolation == (~Stream /\ pc \in Ended /\ Len(rowst) > 1 /\ \E i \in DOMAIN rowst : rowst[i].ph = "external") => (status[run_id] = "completed" /\ \A i \in DOMAIN rowst : rowst[i].ph \in {"done", "external"} /\ (rowst[i].ph = "done" <=> InRepeats(repeats, UidOf(i))))

\* C4: any exception other than ExternalError raised while the records are
\* processed leaves the generator's metadata row with status failed.
C4_FatalMarksFailed == (pc \in Ended /\ exc = "fatal" /\ \E i \in DOMAIN rowst : rowst[i].ph = "fatal") => status[run_id] = "failed"

\* the scheduler never starts a task before every generator it depends on succeeded
TopologicalOrder == \A e \in deps : gstate[e[2]] # "none" => gstate[e[1]] = "success"

\* the same, when the file is run by the airflow scheduler
TopologicalOrderAirflow == mode = "airflow" => TopologicalOrder

\* C5: for every edge G1 -> G2 of the dependency graph, G2 does not start
\* until G1 has completed, whether the emitted file is run through its
\* set_upstream wiring or through its __main__ loop.
C5_TopologicalOrder == mode \in {"airflow", "main"} => TopologicalOrder

\* C6: under every interleaving of the workers a second insert of the same
\* (generator id, input hash) is a no-op: no worker fails on the duplicate
\* key, repeats holds one row per key, every record that wrote has its row,
\* and every row added belongs to a record that wrote.
C6_DoubleInsertNoOp ==
  /\ \A i \in DOMAIN rowst : rowst[i].ph # "dupkey"
  /\ \A e1, e2 \in repeats : RepeatsKey(e1) = RepeatsKey(e2) => e1 = e2
  /\ \A i \in DOMAIN rowst : rowst[i].w => InRepeats(repeats, UidOf(i))
  /\ \A e \in repeats \ repeats0 : \E i \in DOMAIN rowst : UidOf(i) = e.uid /\ rowst[i].w

\* two equal records of different chunks both wrote while the first chunk was still running
C6_Witness == \E i, j, k \in DOMAIN rowst : ChunkOf(i) # ChunkOf(j) /\ UidOf(i) = UidOf(j) /\ rowst[i].ph = "done" /\ rowst[j].ph = "done" /\ ChunkOf(k) = ChunkOf(i) /\ rowst[k].ph = "run" /\ Cardinality({e \in repeats : e.uid = UidOf(i)}) = 1

\* C7: a worker pool is used only for a generator tagged parallel, with
\* serial false, that is not tagged io.
C7_IoSingleWorker == usesPool => ("parallel" \in tags /\ ~serial /\ "io" \notin tags)

\* C8: with or without the stream tag, the transforms of a row start from the
\* extracted record, the loads are applied to it, and a row that was
\* processed is recorded in repeats.
C8_StreamSameSemantics ==
  /\ \A i \in DOMAIN rowst : given[i] # NotGiven => given[i] = ApplyNs(RowOf(i))
  /\ \A l \in loads : l[2] # Missing
  /\ \A i \in DOMAIN rowst : rowst[i].ph = "done" => InRepeats(repeats, UidOf(i))

\* the same, for generators without the stream tag
SameSemanticsBatch == Stream \/ C8_StreamSameSemantics

\* C9: a generator whose query yields no row completes with status completed
\* and n_inputs = 0, runs no transform or load and adds no row to repeats.
C9_EmptyExtract == (query.q /\ query.rows = <<>> /\ pc \in Ended) => (pc = "ret0" /\ status[run_id] = "completed" /\ n_inputs[run_id] = [set |-> TRUE, n |-> 0] /\ NProcessed = 0 /\ loads = {} /\ repeats = repeats0)

\* the same, for generators without the stream tag
EmptyExtractBatch == Stream \/ C9_EmptyExtract

\* C10: every connection a worker opened for a record is closed once the
\* record is finished, however it finished.
C10_ConnectionsClosed == \A i \in DOMAIN rowst : rowst[i].ph \in Terminal => conns[i] = 0

\* a path A -> ... -> B in the dependency graph: A comes before B in every topological order
Reaches(a, b) == <<a, b>> \in deps \/ \E c \in GenNames : <<a, c>> \in deps /\ <<c, b>> \in deps

\* spec 4.4: the filters of a run row select g out of the execution set
SelectedOut(g, r) == g \in r.xclude \/ (r.only # {} /\ g \notin r.only) \/ (r.start # "" /\ Reaches(g, r.start)) \/ (r.until # "" /\ Reaches(r.until, g))

\* C11: filter slicing: a generator selected out by start/until/only/xclude of the run
\* is not executed by the emitted DAG; only the generators of the slice run.
\* Violated: run_airflow renders an operator for every generator of self.gens.
C11_FilterSlicing == \A g \in GenNames, r \in runs : gstate[g] # "none" => ~SelectedOut(g, r)

\* the names among start, until, only and xclude that are not generators of the model
UnknownNames(a) == (({a.start, a.until} \ {""}) \cup Words(a.only) \cup Words(a.xclude)) \ {gens[i] : i \in DOMAIN gens}

\* C12: a run_airflow call given an unknown generator name in start, until, only or
\* xclude raises from the validation and has no side effect: the schema is neither
\* nuked nor created, no run row is written, no DAG file is written.
\* (a step that is not a rejection without side effect is no call with an unknown name)
C12_UnknownNameRejected == [][~dagfile.written => ((aout' \in {"startErr", "tillErr", "nameErr"} /\ UNCHANGED <<schema, nuked, runs, dagfile, gstate>>) \/ \A a \in AirflowArgs : ~(UnknownNames(a) # {} /\ RunAirflow(a)))]_vars

\* an unknown name was rejected where the schema exists, so that the run could have gone on
C12_Witness == aout = "nameErr" /\ schema /\ ~nuked /\ runs = {} /\ ~dagfile.written

\* a call without nuke, with known names, on a missing schema fails and leaves nothing behind
FailsOnMissingSchema == (~dagfile.written /\ ~schema) => ((aout' = "schemaErr" /\ UNCHANGED <<schema, nuked, runs, dagfile, gstate>>) \/ \A a \in AirflowArgs : ~(a.nuke = "" /\ UnknownNames(a) = {} /\ RunAirflow(a)))

\* a call with nuke, with known names, leaves the schema in place and writes the run row and the file
NukeCreatesSchema == ~dagfile.written => ((schema' /\ nuked' /\ aout' = "written" /\ runs' # {} /\ dagfile'.written) \/ \A a \in AirflowArgs : ~(a.nuke # "" /\ UnknownNames(a) = {} /\ RunAirflow(a)))

\* C13: with known names, a call without nuke on a missing schema fails before the
\* metatables and the run row are made and before any generator is scheduled; a call
\* with nuke (re)creates the schema first and the run goes on to write the DAG file.
C13_SchemaPresence == [][FailsOnMissingSchema /\ NukeCreatesSchema]_vars

\* a call failed on the missing schema and left nothing behind
C13_Witness == aout = "schemaErr" /\ ~schema /\ ~nuked /\ runs = {} /\ ~dagfile.written /\ \A g \in GenNames : gstate[g] = "none"

\* a call with nuke created the missing schema and the run went on
NukeProceeds == nuked /\ schema /\ aout = "written" /\ runs # {} /\ dagfile.written

\* the memo was built from another set of nodes than the one attached now
Stale == graph.built /\ graph.nodes # Attached

QueryOps == {"_computational_graph", "_sort_graph", "_sorted_loads", "_get_dependency"}

\* C14: graph validation completeness: when some attached node has an Arg whose key is
\* the hash of no attached node, __init__ and __exit__ raise, and a run raises before
\* it invokes any node, however the nodes were attached.
\* Violated: add_node leaves a memoized graph in place, so a run sorts the old graph,
\* raises nothing and invokes its nodes.
C14_ValidationCompleteness == MissingNode(Attached) => ((op \in {"init", "exit", "run"} => err # "none") /\ invoked = <<>>)

\* without a stale memo every run of a generator with a missing node is rejected
ValidationCompleteFresh == Stale \/ C14_ValidationCompleteness

\* C15: after any sequence of add_node calls and graph queries, the graph a query
\* returns holds exactly the nodes attached at that moment, and their edges.
\* Violated: add_node never resets self._graph.
C15_GraphInvalidated == (op \in QueryOps /\ err # "DBgenMissingInfo") => (graph.built /\ graph.nodes = Attached /\ graph.edges = Edges(Attached))

\* the least node of ns all of whose producers are in done
LeastReady(ns, done) == CHOOSE x \in ns : (NodeTable[x].args \cap Attached) \subseteq done /\ \A y \in ns : (NodeTable[y].args \cap Attached) \subseteq done => x <= y

\* s is the lexicographic topological order of the attached nodes, the extract taken out
LexOrderOfRest(s) == \A i \in DOMAIN s : LET done == {s[j] : j \in 1..(i - 1)} \cup {extract} IN s[i] = LeastReady(Attached \ done, done)

\* C16: _sort_graph returns the extract first, then every attached transform and load
\* exactly once, each after the nodes whose outputs it consumes, in lexicographic
\* topological order of the hashes.
\* Violated: a node added after the graph was memoized is missing from the order.
C16_SortGraphOrder == (op = "_sort_graph" /\ err = "none") => (/\ Len(ret) > 0 /\ ret[1] = extract /\ \A n \in Attached \ {extract} : Cardinality({i \in DOMAIN ret : ret[i] = n}) = 1 /\ \A i, j \in DOMAIN ret : ret[j] \in NodeTable[ret[i]].args => j < i /\ Len(ret) = Cardinality(Attached) /\ LexOrderOfRest(Tail(ret)))

\* on a graph that is not stale the order is as C16 says
SortGraphOrderFresh == Stale \/ C16_SortGraphOrder

\* the nodes reached from n along Arg wiring among the attached nodes, in at most k steps
RECURSIVE Consumers(_, _)
Consumers(S, k) == IF k = 0 THEN S ELSE Consumers(S \cup {m \in Attached : NodeTable[m].args \cap S # {}}, k - 1)
Cyclic == \E n \in Attached : \E m \in Attached : n \in NodeTable[m].args /\ n \in Consumers({m}, Cardinality(Attached))

\* C17: sorting the graph of a generator whose Arg wiring has a cycle raises the cycle
\* error, and an order is returned exactly when the wiring is acyclic.
\* Violated: cyclic nodes added after the graph was memoized are not seen by the sort.
C17_CycleRejected == (op = "_sort_graph" /\ ~MissingNode(Attached)) => ((err = "Cycles found") <=> Cyclic) /\ ((err = "none") <=> ~Cyclic)

\* on a graph that is not stale, cycle and order exclude each other as C17 says
CycleRejectedFresh == Stale \/ C17_CycleRejected

\* C18: add_node with an Extract, on a generator that already holds a user-supplied
\* extract (anything but the Extract() placeholder), raises and leaves the extract as it is.
\* Violated: a user-supplied extract of the base class Extract is replaced silently.
C18_OneExtract == [][\A n \in NodesOfKind("Extract") : (extract # DEFAULT_EXTRACT /\ AddNode(n)) => (err' = "ValueError: 1 extractor" /\ extract' = extract)]_vars

\* add_node does refuse a second extract once a query (a subclass of Extract) is attached
OneExtractSubclass == [][\A n \in NodesOfKind("Extract") : (NodeTable[extract].cls # "Extract" /\ AddNode(n)) => (err' = "ValueError: 1 extractor" /\ extract' = extract)]_vars

\* the union of the contributions of the nodes attached now and of additional_dependencies
RolledUp == [f \in DOMAIN EmptyDependency |-> additional_dependencies[f] \cup UNION {NodeTable[n].dep[f] : n \in Attached}]

\* C19: the Dependency _get_dependency returns is the union of the contributions of
\* every node attached at the time of the call and of additional_dependencies, so it
\* holds the entity of every load added so far.
\* Violated: a load added after the graph was memoized contributes nothing.
C19_DependencyRollup == (op = "_get_dependency" /\ err = "none") => (dependency = RolledUp /\ \A i \in DOMAIN gen_loads : NodeTable[gen_loads[i]].dep.tables_yielded \subseteq dependency.tables_yielded)

\* on a graph that is not stale the roll-up is the union
DependencyRollupFresh == Stale \/ C19_DependencyRollup

\* the values an instance was given under the identifying names of its class
IdentifyingValues(i) == [k \in EntityTable[i.entity].identifying |-> i.given[k]]

\* C20: determinism of row identity: two rows of the same entity (a table) that were
\* given the same values for the identifying attributes and identifying foreign keys
\* have the same id, whatever they were given for id, gen_id, created_at or any other
\* column that is not identifying.
C20_RowIdentity == \A i, j \in instances : (i.entity = j.entity /\ EntityTable[i.entity].is_table /\ IdentifyingValues(i) = IdentifyingValues(j)) => i.values.id = j.values.id

\* two rows of one table with the same identifying values that differ in id, gen_id,
\* created_at and b
C20_Witness == \E i, j \in instances : i.entity = j.entity /\ EntityTable[i.entity].is_table /\ IdentifyingValues(i) = IdentifyingValues(j) /\ i.given.id # j.given.id /\ i.given.gen_id # j.given.gen_id /\ i.given.created_at # j.given.created_at /\ i.given.b # j.given.b /\ i.values.id = j.values.id

\* rows of one table given different identifying values have different ids
DistinctIdentity == \A i, j \in instances : (i.entity = j.entity /\ EntityTable[i.entity].is_table /\ IdentifyingValues(i) # IdentifyingValues(j)) => i.values.id # j.values.id

(***************************************************************************)
(* BaseEntity.load and _get_load_entity                                    *)
(***************************************************************************)
PrimaryKeys(cls) == {c.name : c \in {k \in cls.columns : k.pk}}
NoOverride == lcall.kw[lcall.cls.tablename] = "absent"
IdentifyingAbsent == \E x \in lcall.cls.identifying : lcall.kw[x] = "absent"
IdentifyingSupplied == \A x \in lcall.cls.identifying : lcall.kw[x] = "Const"
KnownColumns == Given(lcall.kw) \ {lcall.cls.tablename} \subseteq all_attrs(lcall.cls) \cup all_fks(lcall.cls)
AllArgLike == \A k \in KwargNames : lcall.kw[k] # "raw"

\* C21 as stated: a load with no primary key override and an identifying name absent
\* raises DBgenMissingInfo, and a load with every identifying name supplied as Arg/Const
\* and only known columns as keywords succeeds
LoadMissingInfoAlways ==
  lcall.op = "load" =>
    /\ (NoOverride /\ IdentifyingAbsent) => lcall.res.err = "DBgenMissingInfo"
    /\ (IdentifyingSupplied /\ KnownColumns) => lcall.res.err = "none"

\* C21 (amended): when every keyword value supplied is an Arg, Const or Load, a load with
\* no primary key override and an identifying name absent raises DBgenMissingInfo; and on
\* a table with exactly one primary key column, a load with every identifying name
\* supplied as Arg/Const and only known columns as keywords succeeds
C21_LoadMissingInfo ==
  (lcall.op = "load" /\ AllArgLike) =>
    /\ (NoOverride /\ IdentifyingAbsent) => lcall.res.err = "DBgenMissingInfo"
    /\ (lcall.cls.is_table /\ Cardinality(PrimaryKeys(lcall.cls)) = 1 /\ IdentifyingSupplied /\ KnownColumns) => lcall.res.err = "none"

C21_Witness == lcall.op = "load" /\ AllArgLike /\ NoOverride /\ IdentifyingAbsent /\ lcall.res.err = "DBgenMissingInfo"

LoadSucceeds == lcall.op = "load" /\ lcall.cls.identifying = {"a", "p_id"} /\ IdentifyingSupplied /\ lcall.kw["b"] = "Const" /\ lcall.res.err = "none" /\ lcall.res.inputs = {"a", "b", "p_id"}

\* C22: a load given a raw python value under some keyword, or a keyword that names
\* neither an attribute nor a foreign key, raises DBgenInvalidArgument
C22_LoadInvalidArgument ==
  lcall.op = "load" =>
    /\ ~AllArgLike => lcall.res.err = "DBgenInvalidArgument"
    /\ (AllArgLike /\ lcall.kw["zz"] # "absent" /\ ~(NoOverride /\ IdentifyingAbsent) /\ lcall.cls.is_table) => lcall.res.err = "DBgenInvalidArgument"

UnknownKeywordRejected ==
  (lcall.op = "load" /\ AllArgLike /\ lcall.kw["zz"] # "absent" /\ ~(NoOverride /\ IdentifyingAbsent) /\ lcall.cls.is_table) => lcall.res.err = "DBgenInvalidArgument"

\* C26: _get_load_entity fails on a class that is no table and on a table with no or
\* several primary key columns; otherwise the identifying attributes and the identifying
\* foreign keys it returns are disjoint, hold no foreign key and only foreign keys, and
\* together are the class's identifying names
C26_GetLoadEntity ==
  lcall.op = "_get_load_entity" =>
    IF ~lcall.cls.is_table \/ Cardinality(PrimaryKeys(lcall.cls)) # 1
    THEN lcall.res.err # "none"
    ELSE /\ lcall.res.err = "none"
         /\ lcall.res.identifying_attributes \cap lcall.res.identifying_foreign_keys = {}
         /\ lcall.res.identifying_attributes \cup lcall.res.identifying_foreign_keys = lcall.cls.identifying
         /\ \A c \in lcall.cls.columns : (c.name \in lcall.res.identifying_attributes => ~c.fk) /\ (c.name \in lcall.res.identifying_foreign_keys => c.fk)

C26_Witness == lcall.op = "_get_load_entity" /\ lcall.res.err = "none" /\ lcall.res.identifying_attributes = {"a", "b"} /\ lcall.res.identifying_foreign_keys = {"p_id"}

GetLoadEntityFails == lcall.op = "_get_load_entity" /\ lcall.res.err = "NotImplementedError"

(***************************************************************************)
(* EntityMetaclass                                                         *)
(***************************************************************************)
Declared == 3..Len(classes)
BasesOf(i) == {classes[classes[i].bases[j]] : j \in DOMAIN classes[i].bases}
OwnIds(i) == ClassBodies[classes[i].body].ids \cup (IF ClassBodies[classes[i].body].all_id THEN ClassBodies[classes[i].body].annotations ELSE {})

\* C23: the __identifying__ of a class is the names its body declares (all its annotated
\* fields under all_id) together with the __identifying__ of every base; it holds each
\* base's set, and _hashinclude_ holds every identifying name
C23_IdentifyingUnion ==
  \A i \in Declared :
    /\ classes[i].identifying = OwnIds(i) \cup UNION {b.identifying : b \in BasesOf(i)}
    /\ \A b \in BasesOf(i) : b.identifying \subseteq classes[i].identifying
    /\ classes[i].identifying \subseteq classes[i].hashinclude

C23_Witness == \E i \in Declared : Len(classes[i].bases) = 2 /\ classes[i].identifying = {"x", "y"} /\ \A b \in BasesOf(i) : b.identifying # {} /\ b.identifying # {"x", "y"}

\* C24: no class exists with an identifying name, declared or inherited, that is not one
\* of its fields: a declaration with such a name fails and makes no class
C24_IdentifyingAreFields ==
  /\ \A i \in 2..Len(classes) : classes[i].identifying \subseteq classes[i].fields
  /\ \A i \in Declared : OwnIds(i) \cup UNION {b.identifying : b \in BasesOf(i)} \subseteq ClassBodies[classes[i].body].annotations \cup UNION {b.fields : b \in BasesOf(i)}

C24_Witness == derr = "ValueError: unknown ids" /\ Len(classes) > 2

InheritedFieldIdentifies == \E i \in Declared : classes[i].body = 4 /\ classes[i].identifying = {"y"} /\ ClassBodies[4].annotations = {}

DuplicateRejected == derr = "ValueError: already present" /\ registry # {}

RECURSIVE LastSupplied(_)
LastSupplied(bases) == IF bases = <<>> THEN "public" ELSE IF classes[bases[Len(bases)]].schema_ # "" THEN classes[bases[Len(bases)]].schema_ ELSE LastSupplied(SubSeq(bases, 1, Len(bases) - 1))

RECURSIVE FirstSupplied(_)
FirstSupplied(bases) == IF bases = <<>> THEN "public" ELSE IF classes[bases[1]].schema_ # "" THEN classes[bases[1]].schema_ ELSE FirstSupplied(Tail(bases))

SchemaShape(i) ==
  /\ classes[i].schema_ # ""
  /\ classes[i].fulltablename = <<classes[i].schema_, classes[i].tablename>>
  /\ ClassBodies[classes[i].body].schema_ # "" => classes[i].schema_ = ClassBodies[classes[i].body].schema_

\* C28 as stated: a class whose body sets no __schema__ has the schema of the last of its
\* bases that has one
SchemaLastWins == \A i \in Declared : SchemaShape(i) /\ (ClassBodies[classes[i].body].schema_ = "" => classes[i].schema_ = LastSupplied(classes[i].bases))

\* C28 (amended): a class whose body sets no __schema__ has the schema of the first of
\* its bases that has one ("public" if none has); every class has a schema that is not
\* empty and its __fulltablename__ is schema.tablename
C28_SchemaFirstWins == \A i \in Declared : SchemaShape(i) /\ (ClassBodies[classes[i].body].schema_ = "" => classes[i].schema_ = FirstSupplied(classes[i].bases))

C28_Witness == \E i \in Declared : ClassBodies[classes[i].body].schema_ = "" /\ Len(classes[i].bases) = 2 /\ classes[classes[i].bases[1]].schema_ = "s1" /\ classes[classes[i].bases[2]].schema_ = "s2" /\ classes[i].schema_ = "s1"

(***************************************************************************)
(* run_gen: completion                                                     *)
(***************************************************************************)
\* no record raises (a stream generator has the query it asserts)
NoneRaises == (Stream => query.q) /\ \A i \in DOMAIN rowst : rowst[i].ph \notin Failed

\* C29: when no record raises, run_gen ends by returning 0 with status completed and
\* n_inputs the number of records processed in this run; and completed is written only
\* once every record that is not suppressed has been applied and recorded in repeats
C29_Completion ==
  /\ (pc \in Ended /\ NoneRaises) => (pc = "ret0" /\ status[run_id] = "completed" /\ n_inputs[run_id] = [set |-> TRUE, n |-> NProcessed])
  /\ (run_id > 0 /\ status[run_id] = "completed" /\ NoneRaises) => \A i \in DOMAIN rowst : rowst[i].ph \in {"done", "skip"} /\ (rowst[i].ph = "done" => InRepeats(repeats, UidOf(i)))

\* the same, for generators without the stream tag
CompletionBatch == Stream \/ C29_Completion

CompletedBatch == ~Stream /\ pc = "ret0" /\ NoneRaises /\ NProcessed = 2 /\ Len(query.rows) > Len(rowst)

(***************************************************************************)
(* to_dict / from_dict                                                     *)
(***************************************************************************)
\* C27: from_dict(to_dict(x)) and fromJSON(toJSON(x)) are equal to x and have x's hash
C27_RoundTrip == spc \in {"from_dict", "fromJSON"} => (sback = sx /\ Hash(sback) = Hash(sx))

HoldsTupleOrSet(x) == \E i \in DOMAIN x.items : x.items[i].t \in {"tuple", "set"}

\* the same, for objects that hold no tuple and no set
RoundTripPlain == (spc \in {"from_dict", "fromJSON"} /\ ~HoldsTupleOrSet(sx)) => (sback = sx /\ Hash(sback) = Hash(sx))

RoundTripPlainReached == spc = "fromJSON" /\ ~HoldsTupleOrSet(sx) /\ Get(sx, "a").t = "dict" /\ Len(Get(sx, "a").items) = 1 /\ sback = sx

\* the hash alone survives the round trip
RoundTripHash == spc \in {"from_dict", "fromJSON"} => Hash(sback) = Hash(sx)

(***************************************************************************)
(* interact_gen                                                            *)
(***************************************************************************)
\* the rows of the log answered c whose display prompts have been left
Finished == SelectSeq(IF ipc \in {"pyblock", "pyblock_enter", "action", "action_enter"} THEN SubSeq(ilog, 1, Len(ilog) - 1) ELSE ilog, LAMBDA e : e.answer = "c")

\* C30: rows are taken in input order; the two lists hold, in order, one entry for each
\* row answered c and nothing for a row answered s, so they are equally long; q at the
\* row prompt returns at once with the lists as they are; otherwise interact_gen
\* returns when no row is left
C30_InteractAccounting ==
  /\ ipc # "idle" => [i \in DOMAIN ilog |-> ilog[i].row] \o (IF ipc = "row_prompt" THEN <<next_row>> ELSE <<>>) \o input_rows = rows0
  /\ Len(post_pyblocks) = Len(action_dicts)
  /\ post_pyblocks = [i \in DOMAIN Finished |-> GenTest(Finished[i].row).namespaces[1]]
  /\ action_dicts = [i \in DOMAIN Finished |-> GenTest(Finished[i].row).action_dicts[1]]
  /\ \A i \in DOMAIN ilog : ilog[i].answer = "q" => (i = Len(ilog) /\ ipc = "returned")
  /\ ipc = "returned" => (input_rows = <<>> \/ (ilog # <<>> /\ ilog[Len(ilog)].answer = "q"))
  /\ (ipc = "loop" /\ input_rows = <<>>) => ENABLED Exhausted

C30_Witness == ipc = "returned" /\ Len(ilog) = 3 /\ ilog[1].answer = "c" /\ ilog[2].answer = "s" /\ ilog[3].answer = "q" /\ ilog[1].row = 2 /\ Len(post_pyblocks) = 1 /\ post_pyblocks[1].query = 2

AllRowsDone == ipc = "returned" /\ Len(ilog) = 3 /\ \A i \in DOMAIN ilog : ilog[i].answer = "c"

====
